---- MODULE Spec2Model ----
(***************************************************************************)
(* Model of result_ai_sdk: the result_ai scope controller, FunctionPatcher *)
(* and the call interceptor result_ai_wrapper (src/result_ai_sdk/patch.py) *)
(* together with the delivery queue they feed (queue_utils.py).            *)
(***************************************************************************)
EXTENDS Integers, Sequences, FiniteSets, TLC

(* ---------------------------- bounds ----------------------------------- *)
\* how many times __enter__ is run in one behaviour, over all scopes
MaxEnters == 2
\* how many calls to a target entry point are made in one behaviour
MaxCalls == 1
\* how many records the producer threads put on the queue in one behaviour
MaxRecords == 3
\* the last second the clock reaches
MaxTime == 4

(* --------------------------- universe ---------------------------------- *)
\* the result_ai instances of the program
Scopes == {"A", "B"}
\* index of a patcher in SUPPORTED_MODULES_TO_PATCH (1 = openai, 2 = langchain_core)
Targets == {1, 2}
\* values of the RESULTAI_ENABLED environment variable ("unset" = not in os.environ)
EnvValues == {"unset", "false", "False"}
\* caller arguments of an intercepted call
CallArgs == {"args1", "args2"}
\* threads that call add_to_queue directly
Producers == {"P1", "P2"}
\* values of the RESULTAI_API_KEY environment variable
ApiKeys == {"unset", "", "k1", "k2"}
\* how a requests.post(...) / response.json() pair ends: it returns, or it
\* raises (connection error, timeout, a body that is not JSON)
PostOutcomes == {"returned", "raised"}
\* the age in seconds at which a batch is sent whatever its size
FlushAge == 3

\* a Python value as json.dumps sees it: "plain" encodes, "opaque" raises
\* TypeError, "circular" raises ValueError; "flattened" is what jsonpickle
\* makes of an opaque value
NoDict == [keys |-> {}, val |-> "absent"]
EmptyDict == [keys |-> {}, val |-> "plain"]
Dict(v) == [keys |-> {"x"}, val |-> v]

\* versions are release tuples <<major, minor>>; "1.0.0" is <<1, 0>>, "0.3.0" is <<0, 3>>
NoVersion == <<>>
NotInstalled == <<-1>>
Unparsable == <<-2>>
InstalledVersions == {<<0, 3>>, <<1, 0>>, <<1, 1>>}
LibStates == {NotInstalled, Unparsable} \cup InstalledVersions

(* --------------------------- callables --------------------------------- *)
\* A callable object: the target library's own function ("func"), Python's
\* None ("none"), or an attribute that no longer resolves ("missing"),
\* under a stack of interceptors; an interceptor is <<scope, n>>, the
\* FunctionWrapper made by that scope in the n-th __enter__ of the behaviour.
Func == [kind |-> "func", wraps |-> <<>>]
PyNone == [kind |-> "none", wraps |-> <<>>]
Missing == [kind |-> "missing", wraps |-> <<>>]

\* wrapper(original): a new FunctionWrapper around original
Wrap(original, s, n) == [kind |-> original.kind, wraps |-> Append(original.wraps, <<s, n>>)]
\* current_func.__wrapped__
Wrapped(c) == [kind |-> c.kind, wraps |-> SubSeq(c.wraps, 1, Len(c.wraps) - 1)]
IsInterceptor(c) == Len(c.wraps) > 0

(* ------------------- FunctionPatcher configuration --------------------- *)
\* SUPPORTED_MODULES_TO_PATCH with max_module_version = mx for every entry
SUPPORTED_MODULES_TO_PATCH(mx) ==
    [t \in Targets |->
        IF t = 1
        THEN [module_name_to_patch |-> "openai.resources.chat.completions",
              func_name_to_patch |-> "Completions.create",
              root_module_name |-> "openai",
              min_module_version |-> <<1, 0>>,
              max_module_version |-> mx]
        ELSE [module_name_to_patch |-> "langchain_core.language_models",
              func_name_to_patch |-> "BaseChatModel.generate",
              root_module_name |-> "langchain_core",
              min_module_version |-> <<0, 3>>,
              max_module_version |-> mx]]

\* packaging.version ordering on release tuples
VersionLess(a, b) == \/ a[1] < b[1]
                     \/ a[1] = b[1] /\ a[2] < b[2]

VARIABLES
    environ,        \* os.environ["RESULTAI_ENABLED"]
    installed,      \* installed version of each target's root library
    patcherCfg,     \* the FunctionPatcher configuration in force
    live,           \* the callable each target's entry point resolves to
    scope,          \* the fields of every result_ai instance
    phase,          \* "new" (not constructed), "idle" or "active" per scope
    enters,         \* number of __enter__ calls made so far
    preEnter,       \* per scope, about its last __enter__ that returned: the live
                    \* entry points just before it, the targets it patched, and
                    \* whether the entry points were left alone since (no other
                    \* __enter__ or __exit__, no attribute removed)
    request_queue,  \* queue_utils.request_queue
    ncalls,         \* calls made so far
    last,           \* the last operation and what its caller observed
    apiKey,         \* os.environ["RESULTAI_API_KEY"] ("unset" = not in os.environ)
    now,            \* time.time(), in whole seconds since import
    BATCH_SIZE,     \* queue_utils.BATCH_SIZE
    worker,         \* per queue_worker thread: where it is and its local variables
    posts,          \* the requests.post calls made so far, in the order issued
                    \* (warned: the flush logged the missing-key warning)
    enqueued,       \* every record put on request_queue so far, in put order
    legacy          \* the fields of the testai_sdk result_ai_cm instance

\* the state of the delivery side
delivery == <<apiKey, now, BATCH_SIZE, worker, posts, enqueued>>

vars == <<environ, installed, patcherCfg, live, scope, phase, enters, preEnter,
          request_queue, ncalls, last, apiKey, now, BATCH_SIZE, worker, posts, enqueued,
          legacy>>


(* ------------------------- pure functions ------------------------------ *)
\* os.getenv(name, default)
Getenv(value, default) == IF value = "unset" THEN default ELSE value
\* a comparison that forgets .lower()
Lower_caseSensitive(v) == v
\* str.lower() on the values the variable takes
Lower(v) == IF v = "False" THEN "false" ELSE v

\* a version check that never looks at max_module_version
is_module_version_supported_ignoresMax(p, inst) ==
    IF inst = NotInstalled THEN "no"
    ELSE IF inst = Unparsable THEN "raise"
    ELSE IF p.min_module_version # NoVersion /\ VersionLess(inst, p.min_module_version) THEN "no"
    ELSE "yes"

\* FunctionPatcher.is_module_version_supported: "yes", "no", or "raise"
\* when version.parse rejects the installed version string (InvalidVersion
\* is not an ImportError)
is_module_version_supported(p, inst) ==
    IF inst = NotInstalled THEN "no"
    ELSE IF inst = Unparsable THEN "raise"
    ELSE IF p.min_module_version # NoVersion /\ VersionLess(inst, p.min_module_version) THEN "no"
    ELSE IF p.max_module_version # NoVersion /\ VersionLess(p.max_module_version, inst) THEN "no"
    ELSE "yes"

\* convert_to_json_serializable: json.dumps succeeds and the object itself
\* is returned, or TypeError sends it through jsonpickle, or another error
\* (ValueError on a circular structure) escapes
convert_to_json_serializable(obj) ==
    IF obj.val = "circular" THEN [raised |-> TRUE, value |-> obj]
    ELSE IF obj.val = "opaque" THEN [raised |-> FALSE, value |-> [obj EXCEPT !.val = "flattened"]]
    ELSE [raised |-> FALSE, value |-> obj]

\* responses a delegate can return: a langchain LLMResult carries
\* generations[0][0].message.usage_metadata, an openai ChatCompletion does not
Responses == {"LLMResult", "ChatCompletion"}
HasGenerations(resp) == resp = "LLMResult"

\* where the interceptor's own bookkeeping can fail: in the pre hook
\* (logging, time.perf_counter) or in the post hook (signature binding,
\* building the record, add_to_queue)
Faults == {"none", "pre", "post"}

\* a record built from a task context bound late: every interceptor
\* reports the context of scope "A"
TelemetryRecord_lateBinding(s, t, args, resp) ==
    [function_patched |-> scope[s].patchers[t].func_name_to_patch,
     module_patched |-> scope[s].patchers[t].module_name_to_patch,
     root_module_name_patched |-> scope[s].patchers[t].root_module_name,
     task_name |-> scope["A"].task_name,
     prompt_template |-> scope["A"].prompt_template,
     user_input_args |-> convert_to_json_serializable(scope["A"].input_args_to_report).value,
     metadata |-> convert_to_json_serializable(scope["A"].metadata).value,
     request_data |-> [llm_call_arguments |-> args],
     response_data |-> [success |-> TRUE, response |-> <<"dict", resp>>]]

\* the dict handed to add_to_queue (timestamp and latency are not modelled)
TelemetryRecord(s, t, args, resp) ==
    [function_patched |-> scope[s].patchers[t].func_name_to_patch,
     module_patched |-> scope[s].patchers[t].module_name_to_patch,
     root_module_name_patched |-> scope[s].patchers[t].root_module_name,
     task_name |-> scope[s].task_name,
     prompt_template |-> scope[s].prompt_template,
     user_input_args |-> convert_to_json_serializable(scope[s].input_args_to_report).value,
     metadata |-> convert_to_json_serializable(scope[s].metadata).value,
     request_data |-> [llm_call_arguments |-> args],
     response_data |-> [success |-> TRUE, response |-> <<"dict", resp>>]]

\* does the post hook of scope s's interceptor reach request_queue.put?
PostHookSucceeds(s, resp, fault) ==
    /\ fault # "post"
    /\ HasGenerations(resp)
    /\ ~convert_to_json_serializable(scope[s].input_args_to_report).raised
    /\ ~convert_to_json_serializable(scope[s].metadata).raised

\* what the target library's own function does with args: the outcome is
\* an input of the call (io.delegate, io.resp); calling None is a TypeError
CallBase(c, args, io) ==
    IF c.kind = "func"
    THEN [raised |-> io.delegate = "raise",
          value |-> IF io.delegate = "raise" THEN "DelegateError" ELSE io.resp,
          delegateArgs |-> <<args>>,
          records |-> <<>>]
    ELSE [raised |-> TRUE, value |-> "TypeError", delegateArgs |-> <<>>, records |-> <<>>]

\* Invoke(c, t, args, io): calling the callable c with args. The result is
\* what the caller observes (raised, value), the argument lists the library
\* function received, and the records handed to add_to_queue, in order.
RECURSIVE Invoke(_, _, _, _)

\* an interceptor whose post hook is not guarded: a bookkeeping failure
\* reaches the caller
result_ai_wrapper_postHookEscapes(s, t, wrapped, args, io) ==
    LET fault == IF s = io.faultScope THEN io.fault ELSE "none"
        response == Invoke(wrapped, t, args, io)
    IN  IF response.raised THEN response
        ELSE IF fault # "pre" /\ ~PostHookSucceeds(s, response.value, fault)
        THEN [raised |-> TRUE, value |-> "BookkeepingError",
              delegateArgs |-> response.delegateArgs, records |-> response.records]
        ELSE [raised |-> FALSE, value |-> response.value,
              delegateArgs |-> response.delegateArgs,
              records |-> IF fault # "pre"
                          THEN Append(response.records,
                                      TelemetryRecord(s, t, args, response.value))
                          ELSE response.records]

\* an interceptor that reports in a finally block: a record is enqueued
\* even when the delegate raised
result_ai_wrapper_recordsFailure(s, t, wrapped, args, io) ==
    LET fault == IF s = io.faultScope THEN io.fault ELSE "none"
        response == Invoke(wrapped, t, args, io)
    IN  [raised |-> response.raised,
         value |-> response.value,
         delegateArgs |-> response.delegateArgs,
         records |-> IF fault # "pre" /\ (response.raised \/ PostHookSucceeds(s, response.value, fault))
                     THEN Append(response.records,
                                 TelemetryRecord(s, t, args, response.value))
                     ELSE response.records]

\* an interceptor that runs its post hook whether or not the pre hook
\* succeeded
result_ai_wrapper_ignoresPreHook(s, t, wrapped, args, io) ==
    LET fault == IF s = io.faultScope THEN io.fault ELSE "none"
        response == Invoke(wrapped, t, args, io)
    IN  IF response.raised THEN response
        ELSE [raised |-> FALSE,
              value |-> response.value,
              delegateArgs |-> response.delegateArgs,
              records |-> IF PostHookSucceeds(s, response.value, fault)
                          THEN Append(response.records,
                                      TelemetryRecord(s, t, args, response.value))
                          ELSE response.records]

\* an interceptor that calls the delegate a second time to measure it
result_ai_wrapper_callsTwice(s, t, wrapped, args, io) ==
    LET fault == IF s = io.faultScope THEN io.fault ELSE "none"
        response == Invoke(wrapped, t, args, io)
    IN  IF response.raised THEN response
        ELSE [raised |-> FALSE,
              value |-> response.value,
              delegateArgs |-> response.delegateArgs \o response.delegateArgs,
              records |-> IF fault # "pre" /\ PostHookSucceeds(s, response.value, fault)
                          THEN Append(response.records,
                                      TelemetryRecord(s, t, args, response.value))
                          ELSE response.records]

\* result_ai_wrapper of scope s on target t around the callable wrapped;
\* io.fault is the bookkeeping fault injected into the interceptors of
\* scope io.faultScope
result_ai_wrapper(s, t, wrapped, args, io) ==
    LET fault == IF s = io.faultScope THEN io.fault ELSE "none"
        pre_hook_success == fault # "pre"
        response == Invoke(wrapped, t, args, io)
    IN  IF response.raised THEN response
        ELSE [raised |-> FALSE,
              value |-> response.value,
              delegateArgs |-> response.delegateArgs,
              records |-> IF pre_hook_success /\ PostHookSucceeds(s, response.value, fault)
                          THEN Append(response.records,
                                      TelemetryRecord(s, t, args, response.value))
                          ELSE response.records]

Invoke(c, t, args, io) ==
    IF Len(c.wraps) = 0
    THEN CallBase(c, args, io)
    ELSE result_ai_wrapper(c.wraps[Len(c.wraps)][1], t, Wrapped(c), args, io)

(* --------------------- FunctionPatcher operations ---------------------- *)
\* wrapt.resolve_path raises when the attribute path does not resolve
Resolves(c) == c.kind # "missing"

\* patch that saves the library's own function, whatever interceptors
\* are installed on the entry point
patch_savesBase(st, s, n, t) ==
    LET p == st.patchers[t]
        supported == is_module_version_supported(p, installed[t])
    IN  IF st.raised \/ supported = "no" THEN st
        ELSE IF supported = "raise" \/ ~Resolves(st.live[t]) THEN [st EXCEPT !.raised = TRUE]
        ELSE [st EXCEPT !.live[t] = Wrap(st.live[t], s, n),
                        !.patchers[t].original_func = [st.live[t] EXCEPT !.wraps = <<>>],
                        !.patchers[t].patched = TRUE]

\* patch that does nothing on a patcher already marked patched
patch_oncePerPatcher(st, s, n, t) ==
    LET p == st.patchers[t]
        supported == is_module_version_supported(p, installed[t])
    IN  IF st.raised \/ supported = "no" \/ p.patched THEN st
        ELSE IF supported = "raise" \/ ~Resolves(st.live[t]) THEN [st EXCEPT !.raised = TRUE]
        ELSE [st EXCEPT !.live[t] = Wrap(st.live[t], s, n),
                        !.patchers[t].original_func = st.live[t],
                        !.patchers[t].patched = TRUE]

\* patch that resolves the entry point again after installing the
\* interceptor, and so saves the interceptor as the original
patch_savesInterceptor(st, s, n, t) ==
    LET p == st.patchers[t]
        supported == is_module_version_supported(p, installed[t])
    IN  IF st.raised \/ supported = "no" THEN st
        ELSE IF supported = "raise" \/ ~Resolves(st.live[t]) THEN [st EXCEPT !.raised = TRUE]
        ELSE [st EXCEPT !.live[t] = Wrap(st.live[t], s, n),
                        !.patchers[t].original_func = Wrap(st.live[t], s, n),
                        !.patchers[t].patched = TRUE]

\* FunctionPatcher.patch(wrapper) on target t in the n-th __enter__, made by s,
\* applied to st = [live, patchers, raised]
patch(st, s, n, t) ==
    LET p == st.patchers[t]
        supported == is_module_version_supported(p, installed[t])
    IN  IF st.raised \/ supported = "no" THEN st
        ELSE IF supported = "raise" \/ ~Resolves(st.live[t]) THEN [st EXCEPT !.raised = TRUE]
        ELSE [st EXCEPT !.live[t] = Wrap(st.live[t], s, n),
                        !.patchers[t].original_func = st.live[t],
                        !.patchers[t].patched = TRUE]

\* unpatch that strips every interceptor from the saved callable before
\* putting it back
unpatch_restoresBase(st, t) ==
    LET p == st.patchers[t] IN
    IF st.raised \/ ~p.patched THEN st
    ELSE IF ~Resolves(st.live[t]) THEN [st EXCEPT !.raised = TRUE]
    ELSE [st EXCEPT !.live[t] = [p.original_func EXCEPT !.wraps = <<>>],
                    !.patchers[t].original_func = PyNone]

\* unpatch that forgets the setattr: the interceptor stays installed
unpatch_keepsInterceptor(st, t) ==
    LET p == st.patchers[t] IN
    IF st.raised \/ ~p.patched THEN st
    ELSE IF ~Resolves(st.live[t]) THEN [st EXCEPT !.raised = TRUE]
    ELSE [st EXCEPT !.patchers[t].original_func = PyNone]

\* FunctionPatcher.unpatch() on target t, applied to st = [live, patchers, raised]
unpatch(st, t) ==
    LET p == st.patchers[t] IN
    IF st.raised \/ ~p.patched THEN st
    ELSE IF ~Resolves(st.live[t]) THEN [st EXCEPT !.raised = TRUE]
    ELSE [st EXCEPT !.live[t] = p.original_func,
                    !.patchers[t].original_func = PyNone]

\* a loop over the patchers that stops at the first target it skips
RECURSIVE PatchAll_stopsAtSkipped(_, _, _, _)
PatchAll_stopsAtSkipped(st, s, n, t) ==
    IF t \notin Targets THEN st
    ELSE IF is_module_version_supported(st.patchers[t], installed[t]) = "no" THEN st
    ELSE PatchAll_stopsAtSkipped(patch(st, s, n, t), s, n, t + 1)

\* for patcher in self.patchers: patcher.patch(...), in list order
RECURSIVE PatchAll(_, _, _, _)
PatchAll(st, s, n, t) ==
    IF t \notin Targets THEN st ELSE PatchAll(patch(st, s, n, t), s, n, t + 1)

\* for patcher in self.patchers: patcher.unpatch(), in list order
RECURSIVE UnpatchAll(_, _)
UnpatchAll(st, t) ==
    IF t \notin Targets THEN st ELSE UnpatchAll(unpatch(st, t), t + 1)


(* ------------------------------ state ---------------------------------- *)
\* a result_ai instance before __init__ has run, and the fields __init__
\* leaves unset when it returns early; given keeps the arguments the
\* instance was constructed with and RESULTAI_ENABLED as it was then
NoContext == [task_name |-> "", prompt_template |-> "", kwargs |-> NoDict, metadata |-> NoDict,
              enabled |-> FALSE, environ |-> "unset"]
NoScope ==
    [enabled |-> FALSE, given |-> NoContext, task_name |-> "", prompt_template |-> "",
     input_args_to_report |-> NoDict, metadata |-> NoDict,
     patchers |-> [t \in Targets |-> [patched |-> FALSE, original_func |-> PyNone,
                                      module_name_to_patch |-> "", func_name_to_patch |-> "",
                                      root_module_name |-> "",
                                      min_module_version |-> NoVersion,
                                      max_module_version |-> NoVersion]]]

NoIO == [delegate |-> "none", resp |-> "none", fault |-> "none", faultScope |-> "A"]
NoOutcome == [raised |-> FALSE, value |-> "none", delegateArgs |-> <<>>, records |-> <<>>]

\* the record of the last operation: which one, on which scope, whether it
\* raised, and the phase the scope was in before it; requests: how many
\* requests the worker had issued when it ran; exc: the with-body
\* raised (exit); flag: the enabled argument (init); the rest describes a call
Last(op, s, raised, was) ==
    [op |-> op, scope |-> s, raised |-> raised, wasPhase |-> was, requests |-> Len(posts),
     exc |-> FALSE, flag |-> FALSE, target |-> 0, args |-> "none", io |-> NoIO, outcome |-> NoOutcome]

\* the queue_worker threads the process can hold: the one patch.py starts
\* at import and one more
Workers == {1, 2}
\* a thread that was not started
NoWorker == [pc |-> "off", batch |-> <<>>, last_send_time |-> 0, current_time |-> 0,
             notified_no_api_key |-> FALSE]
\* queue_worker at its first poll, started at time t: batch = [],
\* last_send_time = time.time(), notified_no_api_key = False
NewWorker(t) == [NoWorker EXCEPT !.pc = "poll", !.last_send_time = t]

\* testai_sdk.core: a result_ai_cm instance before __init__ has run, and the
\* module's own request_queue
NoLegacy == [phase |-> "new", task_name |-> "", input_args |-> NoDict, old_func |-> PyNone,
             request_queue |-> <<>>]

\* the state after import: nothing patched, no scope constructed, the
\* worker started by patch.py running
Start ==
    /\ live = [t \in Targets |-> Func]
    /\ scope = [s \in Scopes |-> NoScope]
    /\ phase = [s \in Scopes |-> "new"]
    /\ enters = 0
    /\ preEnter = [s \in Scopes |->
                      [live |-> [t \in Targets |-> Func], patched |-> {}, alone |-> FALSE]]
    /\ request_queue = <<>>
    /\ ncalls = 0
    /\ posts = <<>>
    /\ last = Last("import", "A", FALSE, "new")
    /\ now = 0
    /\ worker = [w \in Workers |-> IF w = 1 THEN NewWorker(0) ELSE NoWorker]
    /\ enqueued = <<>>
    /\ legacy = NoLegacy

(* ----------------------------- actions --------------------------------- *)
\* result_ai.__init__(task_name, prompt_template, metadata, enabled, **kwargs)
\* with the arguments drawn from contexts and flags (the template/keyword
\* cross-check only logs)
Construct(s, contexts, flags) ==
    /\ phase[s] = "new"
    /\ \E ctx \in contexts, enabled \in flags :
          LET en == enabled /\ Lower(Getenv(environ, "true")) # "false"
              given == [task_name |-> ctx.task_name, prompt_template |-> ctx.prompt_template,
                        kwargs |-> ctx.kwargs, metadata |-> ctx.metadata,
                        enabled |-> enabled, environ |-> environ]
          IN
          /\ scope' = [scope EXCEPT ![s] =
                      IF ~en THEN [NoScope EXCEPT !.given = given]
                      ELSE [enabled |-> TRUE,
                            given |-> given,
                            task_name |-> ctx.task_name,
                            prompt_template |-> ctx.prompt_template,
                            input_args_to_report |-> ctx.kwargs,
                            metadata |-> IF ctx.metadata # NoDict THEN ctx.metadata ELSE EmptyDict,
                            patchers |-> [t \in Targets |->
                                [patched |-> FALSE, original_func |-> PyNone,
                                 module_name_to_patch |-> patcherCfg[t].module_name_to_patch,
                                 func_name_to_patch |-> patcherCfg[t].func_name_to_patch,
                                 root_module_name |-> patcherCfg[t].root_module_name,
                                 min_module_version |-> patcherCfg[t].min_module_version,
                                 max_module_version |-> patcherCfg[t].max_module_version]]]]
          /\ last' = [Last("init", s, FALSE, phase[s]) EXCEPT !.flag = enabled]
    /\ phase' = [phase EXCEPT ![s] = "idle"]
    /\ UNCHANGED <<environ, installed, patcherCfg, live, enters, preEnter, request_queue, ncalls>>
    /\ UNCHANGED <<delivery, legacy>>

\* result_ai.__enter__
Enter(s) ==
    /\ phase[s] # "new"
    /\ enters < MaxEnters
    /\ enters' = enters + 1
    /\ LET st == IF scope[s].enabled
                 THEN PatchAll([live |-> live, patchers |-> scope[s].patchers, raised |-> FALSE],
                               s, enters + 1, 1)
                 ELSE [live |-> live, patchers |-> scope[s].patchers, raised |-> FALSE]
       IN  /\ live' = st.live
           /\ scope' = [scope EXCEPT ![s].patchers = st.patchers]
           /\ phase' = [phase EXCEPT ![s] = IF st.raised THEN @ ELSE "active"]
           /\ preEnter' = [o \in Scopes |->
                              IF o = s /\ ~st.raised
                              THEN [live |-> live,
                                    patched |-> {t \in Targets : st.live[t] # live[t]},
                                    alone |-> TRUE]
                              ELSE [preEnter[o] EXCEPT !.alone = FALSE]]
           /\ last' = Last("enter", s, st.raised, phase[s])
    /\ UNCHANGED <<environ, installed, patcherCfg, request_queue, ncalls>>
    /\ UNCHANGED <<delivery, legacy>>

\* result_ai.__exit__(exctype, excinst, exctb); exc says whether the
\* with-body raised
Exit(s) ==
    /\ phase[s] # "new"
    /\ \E exc \in BOOLEAN :
        LET st == IF scope[s].enabled
                  THEN UnpatchAll([live |-> live, patchers |-> scope[s].patchers, raised |-> FALSE], 1)
                  ELSE [live |-> live, patchers |-> scope[s].patchers, raised |-> FALSE]
        IN  /\ live' = st.live
            /\ scope' = [scope EXCEPT ![s].patchers = st.patchers]
            /\ last' = [Last("exit", s, st.raised, phase[s]) EXCEPT !.exc = exc]
    /\ phase' = [phase EXCEPT ![s] = "idle"]
    /\ preEnter' = [o \in Scopes |-> [preEnter[o] EXCEPT !.alone = FALSE]]
    /\ UNCHANGED <<environ, installed, patcherCfg, enters, request_queue, ncalls>>
    /\ UNCHANGED <<delivery, legacy>>

\* a put that replaces what the queue holds
add_to_queue_overwrites(q, records) == records
\* add_to_queue(data) for each record the call's interceptors produced
add_to_queue(q, records) == q \o records

\* the program calls target t through its live entry point, with arguments
\* from argset and bookkeeping faults from faults; a fault is injected into
\* the interceptors of one scope that has one installed, and the response
\* is only chosen when the delegate returns
Call(t, argset, faults) ==
    /\ ncalls < MaxCalls
    /\ Resolves(live[t])
    /\ \E args \in argset, delegate \in {"return", "raise"}, resp \in Responses,
          fault \in faults, faultScope \in Scopes :
          /\ fault = "none" => faultScope = "A"
          /\ fault # "none" => \E i \in 1..Len(live[t].wraps) : live[t].wraps[i][1] = faultScope
          /\ delegate = "raise" => resp = "LLMResult"
          /\ LET io == [delegate |-> delegate, resp |-> resp, fault |-> fault,
                        faultScope |-> faultScope]
                 outcome == Invoke(live[t], t, args, io)
             IN  /\ request_queue' = add_to_queue(request_queue, outcome.records)
                 /\ enqueued' = enqueued \o outcome.records
                 /\ last' = [Last("call", "A", outcome.raised, "new") EXCEPT
                                !.target = t, !.args = args, !.io = io, !.outcome = outcome]
    /\ ncalls' = ncalls + 1
    /\ UNCHANGED <<environ, installed, patcherCfg, live, scope, phase, enters, preEnter>>
    /\ UNCHANGED <<apiKey, now, BATCH_SIZE, worker, posts, legacy>>

\* the program changes os.environ["RESULTAI_ENABLED"]
SetEnv(v) ==
    /\ v # environ
    /\ environ' = v
    /\ last' = Last("environ", "A", FALSE, "new")
    /\ UNCHANGED <<installed, patcherCfg, live, scope, phase, enters, preEnter,
                   request_queue, ncalls>>
    /\ UNCHANGED <<delivery, legacy>>

\* the attribute of target t is removed from its parent, so that
\* wrapt.resolve_path raises on it from now on
DelAttr(t) ==
    /\ Resolves(live[t])
    /\ live' = [live EXCEPT ![t] = Missing]
    /\ preEnter' = [o \in Scopes |-> [preEnter[o] EXCEPT !.alone = FALSE]]
    /\ last' = Last("delattr", "A", FALSE, "new")
    /\ UNCHANGED <<environ, installed, patcherCfg, scope, phase, enters, request_queue, ncalls>>
    /\ UNCHANGED <<delivery, legacy>>

(* ------------------- testai_sdk: the older interceptor ----------------- *)
\* the entry point result_ai_cm replaces: Completions.create of openai
LegacyTarget == 1
\* what Completions.create can return: a ChatCompletion, a ChatCompletion
\* whose usage is None, and the Stream a call with stream=True returns
LegacyResponses == {"ChatCompletion", "NoUsage", "Stream"}
LegacyTasks == {"t1", "t2"}

\* the function object __enter__ number n defines; it reads self.old_func
\* when it is called, so it holds no original of its own
NewCreate(n) == [kind |-> "new_create", wraps |-> <<<<"L", n>>>>]

\* len(result.choices), result.usage.total_tokens, result.choices[0]: the
\* response has choices and a usage
CaptureSucceeds(resp) == resp = "ChatCompletion"

\* the dictionary new_create hands to add_to_queue
LegacyRecord(task_name, input_args, args, resp) ==
    [task |-> task_name,
     request_data |-> [input_args |-> input_args, kwargs |-> args],
     response_data |-> [success |-> TRUE, completion |-> resp]]

\* the body of new_create's try once the delegate's outcome is known: a
\* delegate that raised is logged and re-raised; after one that returned
\* the record is built and queued, and whatever that raises is logged and
\* re-raised too
CaptureAndReturn(task_name, input_args, args, io, result) ==
    IF result.raised
    THEN result
    ELSE IF CaptureSucceeds(io.resp)
         THEN [result EXCEPT !.records = <<LegacyRecord(task_name, input_args, args, io.resp)>>]
         ELSE [raised |-> TRUE, value |-> "AttributeError",
               delegateArgs |-> result.delegateArgs, records |-> <<>>]

\* result_ai_cm's new_create(*args, **kwargs) on the instance self: the
\* delegate is self.old_func as it is now; when that is a new_create of
\* the same instance the calls never end and Python raises RecursionError
new_create(self, args, io) ==
    CaptureAndReturn(self.task_name, self.input_args, args, io,
        IF self.old_func.kind = "new_create"
        THEN [raised |-> TRUE, value |-> "RecursionError", delegateArgs |-> <<>>,
              records |-> <<>>]
        ELSE CallBase(self.old_func, args, io))

\* monitor_openai_call(task_name, input_args, original_func)(*args, **kwargs)
monitor_openai_call(task_name, input_args, original_func, args, io) ==
    CaptureAndReturn(task_name, input_args, args, io, CallBase(original_func, args, io))

\* result_ai_cm(task_name, **kwargs)
LegacyInit(task_name, input_args) ==
    /\ legacy.phase = "new"
    /\ legacy' = [legacy EXCEPT !.phase = "idle", !.task_name = task_name,
                                !.input_args = input_args, !.old_func = PyNone]
    /\ last' = Last("legacy_init", "A", FALSE, legacy.phase)
    /\ UNCHANGED <<environ, installed, patcherCfg, live, scope, phase, enters, preEnter,
                   request_queue, ncalls>>
    /\ UNCHANGED delivery

\* result_ai_cm.__enter__: old_func becomes whatever the entry point is
\* now (left as it was when the attribute is gone), and a new new_create
\* is installed
LegacyEnter ==
    /\ legacy.phase # "new"
    /\ enters < MaxEnters
    /\ enters' = enters + 1
    /\ legacy' = [legacy EXCEPT !.phase = "active",
                                !.old_func = IF Resolves(live[LegacyTarget])
                                             THEN live[LegacyTarget] ELSE @]
    /\ live' = [live EXCEPT ![LegacyTarget] = NewCreate(enters + 1)]
    /\ last' = Last("legacy_enter", "A", FALSE, legacy.phase)
    /\ UNCHANGED <<environ, installed, patcherCfg, scope, phase, preEnter, request_queue, ncalls>>
    /\ UNCHANGED delivery

\* result_ai_cm.__exit__: the entry point becomes old_func, old_func
\* becomes None; an exception of the with body is logged and propagates
LegacyExit(exc) ==
    /\ legacy.phase # "new"
    /\ live' = [live EXCEPT ![LegacyTarget] = legacy.old_func]
    /\ legacy' = [legacy EXCEPT !.phase = "idle", !.old_func = PyNone]
    /\ last' = [Last("legacy_exit", "A", exc, legacy.phase) EXCEPT !.exc = exc]
    /\ UNCHANGED <<environ, installed, patcherCfg, scope, phase, enters, preEnter,
                   request_queue, ncalls>>
    /\ UNCHANGED delivery

\* the program calls openai's Completions.create through its live entry
\* point; the response is only chosen when the delegate returns
LegacyCall ==
    /\ ncalls < MaxCalls
    /\ \E args \in CallArgs, delegate \in {"return", "raise"}, resp \in LegacyResponses :
          /\ delegate = "raise" => resp = "ChatCompletion"
          /\ LET io == [NoIO EXCEPT !.delegate = delegate, !.resp = resp]
                 outcome == IF live[LegacyTarget].kind = "new_create"
                            THEN new_create(legacy, args, io)
                            ELSE CallBase(live[LegacyTarget], args, io)
             IN  /\ legacy' = [legacy EXCEPT !.request_queue = @ \o outcome.records]
                 /\ last' = [Last("legacy_call", "A", outcome.raised, legacy.phase) EXCEPT
                                !.target = LegacyTarget, !.args = args, !.io = io,
                                !.outcome = outcome]
    /\ ncalls' = ncalls + 1
    /\ UNCHANGED <<environ, installed, patcherCfg, live, scope, phase, enters, preEnter,
                   request_queue>>
    /\ UNCHANGED delivery

\* the program wraps the live entry point with monitor_openai_call and
\* calls the wrapper, without installing it
MonitoredCall ==
    /\ ncalls < MaxCalls
    /\ \E task_name \in LegacyTasks, args \in CallArgs, delegate \in {"return", "raise"},
          resp \in LegacyResponses :
          /\ delegate = "raise" => resp = "ChatCompletion"
          /\ LET io == [NoIO EXCEPT !.delegate = delegate, !.resp = resp]
                 outcome == monitor_openai_call(task_name, EmptyDict, live[LegacyTarget],
                                                args, io)
             IN  /\ legacy' = [legacy EXCEPT !.request_queue = @ \o outcome.records]
                 /\ last' = [Last("monitored_call", "A", outcome.raised, legacy.phase) EXCEPT
                                !.target = LegacyTarget, !.args = args, !.io = io,
                                !.outcome = outcome]
    /\ ncalls' = ncalls + 1
    /\ UNCHANGED <<environ, installed, patcherCfg, live, scope, phase, enters, preEnter,
                   request_queue>>
    /\ UNCHANGED delivery

(* ------------------------- delivery worker ----------------------------- *)
\* what the worker and the producers leave alone
patching == <<environ, installed, patcherCfg, live, scope, phase, enters, preEnter, ncalls, last,
              legacy>>

\* a queue that hands out the newest item first
get_nowait_lifo(q) == [item |-> q[Len(q)], rest |-> SubSeq(q, 1, Len(q) - 1)]
\* request_queue.get_nowait() on a queue that holds something
get_nowait(q) == [item |-> Head(q), rest |-> Tail(q)]

\* a worker that sends whatever it has after every dequeue
ShouldFlush_always(batch, current_time, last_send_time) == Len(batch) >= 1
\* a size test that needs one record more than BATCH_SIZE
ShouldFlush_strict(batch, current_time, last_send_time) ==
    Len(batch) > BATCH_SIZE \/ (current_time - last_send_time) >= FlushAge
\* a worker that flushes by age only
ShouldFlush_ageOnly(batch, current_time, last_send_time) ==
    (current_time - last_send_time) >= FlushAge
\* the flush condition of queue_worker
ShouldFlush(batch, current_time, last_send_time) ==
    Len(batch) >= BATCH_SIZE \/ (current_time - last_send_time) >= FlushAge

\* a worker that reads the key for its first request and keeps it
FlushKey_cached(w) ==
    LET mine == {i \in 1..Len(posts) : posts[i].by = w}
    IN  IF mine = {} THEN Getenv(apiKey, "") ELSE posts[CHOOSE i \in mine : TRUE].api_key
\* api_key = os.getenv("RESULTAI_API_KEY", "") as worker w reads it
FlushKey(w) == Getenv(apiKey, "")

\* a worker that keeps the batch of a failed request for the next one
BatchAfterFlush_retries(batch, outcome) == IF outcome = "raised" THEN batch ELSE <<>>
\* if not api_key and not notified_no_api_key: whether this flush logs
\* the missing-key warning
Warns(notified_no_api_key, api_key) == api_key = "" /\ ~notified_no_api_key

\* a worker that never remembers that it has warned
NotifiedAfter_forgets(notified_no_api_key, api_key) == notified_no_api_key
\* notified_no_api_key after the warning block
NotifiedAfter(notified_no_api_key, api_key) ==
    notified_no_api_key \/ Warns(notified_no_api_key, api_key)

\* batch = [] after the try/except around the request
BatchAfterFlush(batch, outcome) == <<>>

\* the request worker w has in flight
Pending(w) == CHOOSE i \in 1..Len(posts) : posts[i].by = w /\ posts[i].status = "pending"

\* a producer thread calls add_to_queue(data); the n-th record of
\* producer p is [producer |-> p, n |-> n]
Produce(p) ==
    /\ Len(enqueued) < MaxRecords
    /\ LET data == [producer |-> p,
                    n |-> Cardinality({i \in 1..Len(enqueued) :
                                          /\ "producer" \in DOMAIN enqueued[i]
                                          /\ enqueued[i].producer = p}) + 1]
       IN  /\ request_queue' = add_to_queue(request_queue, <<data>>)
           /\ enqueued' = Append(enqueued, data)
    /\ UNCHANGED <<patching, apiKey, now, BATCH_SIZE, worker, posts>>

\* queue_worker: while not request_queue.empty()
WorkerPoll(w) ==
    /\ worker[w].pc = "poll"
    /\ worker' = [worker EXCEPT ![w].pc = IF request_queue = <<>> THEN "sleep" ELSE "get"]
    /\ UNCHANGED <<patching, request_queue, apiKey, now, BATCH_SIZE, posts, enqueued>>

\* queue_worker: get_nowait, batch.append, task_done, current_time =
\* time.time(), the flush condition and, when it holds, the api key and
\* the requests.post call; queue.Empty leaves the inner loop
WorkerGet(w) ==
    /\ worker[w].pc = "get"
    /\ IF request_queue = <<>>
       THEN /\ worker' = [worker EXCEPT ![w].pc = "sleep"]
            /\ UNCHANGED <<request_queue, posts>>
       ELSE LET got == get_nowait(request_queue)
                batch == Append(worker[w].batch, got.item)
                api_key == FlushKey(w)
            IN  /\ request_queue' = got.rest
                /\ IF ShouldFlush(batch, now, worker[w].last_send_time)
                   THEN /\ worker' = [worker EXCEPT ![w] =
                                         [@ EXCEPT !.pc = "post", !.batch = batch,
                                                   !.current_time = now,
                                                   !.notified_no_api_key =
                                                       NotifiedAfter(@, api_key)]]
                        /\ posts' = Append(posts, [prompts |-> batch, api_key |-> api_key,
                                                   by |-> w, at |-> now, status |-> "pending",
                                                   warned |-> Warns(worker[w].notified_no_api_key,
                                                                    api_key)])
                   ELSE /\ worker' = [worker EXCEPT ![w] = [@ EXCEPT !.pc = "poll", !.batch = batch]]
                        /\ posts' = posts
    /\ UNCHANGED <<patching, apiKey, now, BATCH_SIZE, enqueued>>

\* queue_worker: requests.post and response.json() return, or one of them
\* raises; last_send_time = current_time on the first, batch = [] on both
WorkerPostEnd(w) ==
    /\ worker[w].pc = "post"
    /\ \E outcome \in PostOutcomes :
          /\ posts' = [posts EXCEPT ![Pending(w)].status = outcome]
          /\ worker' = [worker EXCEPT ![w] =
                           [@ EXCEPT !.pc = "poll",
                                     !.batch = BatchAfterFlush(worker[w].batch, outcome),
                                     !.last_send_time = IF outcome = "returned"
                                                        THEN worker[w].current_time ELSE @,
                                     !.current_time = 0]]
    /\ UNCHANGED <<patching, request_queue, apiKey, now, BATCH_SIZE, enqueued>>

\* queue_worker: time.sleep(CHECK_INTERVAL)
WorkerSleep(w) ==
    /\ worker[w].pc = "sleep"
    /\ worker' = [worker EXCEPT ![w].pc = "poll"]
    /\ UNCHANGED <<patching, request_queue, apiKey, now, BATCH_SIZE, posts, enqueued>>

\* start_queue_worker(): a new daemon thread running queue_worker
start_queue_worker(w) ==
    /\ worker[w].pc = "off"
    /\ worker' = [worker EXCEPT ![w] = NewWorker(now)]
    /\ UNCHANGED <<patching, request_queue, apiKey, now, BATCH_SIZE, posts, enqueued>>

\* a second passes
Tick ==
    /\ now < MaxTime
    /\ now' = now + 1
    /\ UNCHANGED <<patching, request_queue, apiKey, BATCH_SIZE, worker, posts, enqueued>>

\* the program changes os.environ["RESULTAI_API_KEY"]
SetApiKey(v) ==
    /\ v # apiKey
    /\ apiKey' = v
    /\ UNCHANGED <<patching, request_queue, now, BATCH_SIZE, worker, posts, enqueued>>

\* a queue with room for one item only
put_blocks_bounded(q) == Len(q) >= 1
\* whether request_queue.put(data) has to wait: request_queue is a
\* Queue() without maxsize
put_blocks(q) == FALSE

\* an intercepted call on a caller's thread: the call and the puts of
\* its records
InterceptedCall(t) ==
    /\ ~put_blocks(request_queue)
    /\ Call(t, {"args1"}, {"none"})

\* one step of worker thread w
WorkerStep(w) == WorkerPoll(w) \/ WorkerGet(w) \/ WorkerPostEnd(w) \/ WorkerSleep(w)

(* -------------------------- specifications ----------------------------- *)
\* arguments of result_ai(...): the usual case, unserializable keyword
\* arguments, and metadata json.dumps rejects with ValueError
Context(name, kwargs, metadata) ==
    [task_name |-> name, prompt_template |-> "{x} there", kwargs |-> kwargs, metadata |-> metadata]
PlainContext == Context("t1", Dict("plain"), NoDict)
CircularContext == Context("t1", Dict("plain"), Dict("circular"))
TaskContexts == {PlainContext, Context("t2", Dict("opaque"), Dict("plain")), CircularContext}

\* Spec: scopes constructed with every task context, and the calls made
\* through them, with both libraries installed at a supported version
Init ==
    /\ environ = "unset"
    /\ installed = [t \in Targets |-> <<1, 0>>]
    /\ patcherCfg = SUPPORTED_MODULES_TO_PATCH(NoVersion)
    /\ apiKey = "unset"
    /\ BATCH_SIZE = 1
    /\ Start

Next ==
    \/ \E s \in Scopes : Construct(s, TaskContexts, {TRUE})
    \/ \E s \in Scopes : Enter(s)
    \/ \E s \in Scopes : Exit(s)
    \/ \E t \in Targets : Call(t, {"args1"}, {"none"})

Spec == Init /\ [][Next]_vars

\* SpecCall: intercepted calls with every argument list, delegate outcome
\* and bookkeeping fault
InitCall == Init

NextCall ==
    \/ \E s \in Scopes : Construct(s, {PlainContext, CircularContext}, {TRUE})
    \/ \E s \in Scopes : Enter(s)
    \/ \E s \in Scopes : Exit(s)
    \/ \E t \in Targets : Call(t, CallArgs, Faults)

SpecCall == InitCall /\ [][NextCall]_vars

\* SpecPatch: patching and restoring under every library state, with entry
\* points that may stop resolving
InitPatch ==
    /\ environ = "unset"
    /\ installed \in [Targets -> LibStates]
    /\ patcherCfg \in {SUPPORTED_MODULES_TO_PATCH(mx) : mx \in {NoVersion, <<1, 0>>}}
    /\ apiKey = "unset"
    /\ BATCH_SIZE = 1
    /\ Start

NextPatch ==
    \/ \E s \in Scopes : Construct(s, {PlainContext}, {TRUE})
    \/ \E s \in Scopes : Enter(s)
    \/ \E s \in Scopes : Exit(s)
    \/ \E t \in Targets : DelAttr(t)

SpecPatch == InitPatch /\ [][NextPatch]_vars

\* SpecEnv: the enablement decision under a changing RESULTAI_ENABLED
InitEnv ==
    /\ environ \in EnvValues
    /\ installed = [t \in Targets |-> <<1, 0>>]
    /\ patcherCfg = SUPPORTED_MODULES_TO_PATCH(NoVersion)
    /\ apiKey = "unset"
    /\ BATCH_SIZE = 1
    /\ Start

NextEnv ==
    \/ \E s \in Scopes : Construct(s, {PlainContext}, BOOLEAN)
    \/ \E s \in Scopes : Enter(s)
    \/ \E s \in Scopes : Exit(s)
    \/ \E t \in Targets : Call(t, {"args1"}, {"none"})
    \/ \E v \in EnvValues : SetEnv(v)

SpecEnv == InitEnv /\ [][NextEnv]_vars

\* SpecWorker: producer threads, the worker started at import and the
\* clock, for batch sizes 1 and 2
InitWorker ==
    /\ environ = "unset"
    /\ installed = [t \in Targets |-> <<1, 0>>]
    /\ patcherCfg = SUPPORTED_MODULES_TO_PATCH(NoVersion)
    /\ apiKey = "k1"
    /\ BATCH_SIZE \in {1, 2}
    /\ Start

NextWorker ==
    \/ \E p \in Producers : Produce(p)
    \/ WorkerPoll(1)
    \/ WorkerGet(1)
    \/ WorkerPostEnd(1)
    \/ WorkerSleep(1)
    \/ Tick

SpecWorker == InitWorker /\ [][NextWorker]_vars

\* SpecFlush: one producer thread, the worker and the clock
NextFlush ==
    \/ Produce("P1")
    \/ WorkerPoll(1)
    \/ WorkerGet(1)
    \/ WorkerPostEnd(1)
    \/ WorkerSleep(1)
    \/ Tick

SpecFlush == InitWorker /\ [][NextFlush]_vars

\* the worker thread is scheduled again and again, a request ends (it has
\* a timeout), and time passes
FairSpecFlush == SpecFlush /\ WF_vars(WorkerStep(1)) /\ WF_vars(Tick)

\* SpecKey: the worker under a changing RESULTAI_API_KEY
InitKey ==
    /\ environ = "unset"
    /\ installed = [t \in Targets |-> <<1, 0>>]
    /\ patcherCfg = SUPPORTED_MODULES_TO_PATCH(NoVersion)
    /\ apiKey \in ApiKeys
    /\ BATCH_SIZE = 1
    /\ Start

NextKey ==
    \/ Produce("P1")
    \/ WorkerPoll(1)
    \/ WorkerGet(1)
    \/ WorkerPostEnd(1)
    \/ WorkerSleep(1)
    \/ \E v \in ApiKeys : SetApiKey(v)

SpecKey == InitKey /\ [][NextKey]_vars

\* SpecStart: the program calls start_queue_worker again after import
InitStart == Init

NextStart ==
    \/ \E w \in Workers : start_queue_worker(w)
    \/ \E p \in Producers : Produce(p)
    \/ \E w \in Workers : WorkerPoll(w)
    \/ \E w \in Workers : WorkerGet(w)
    \/ \E w \in Workers : WorkerPostEnd(w)
    \/ \E w \in Workers : WorkerSleep(w)

SpecStart == InitStart /\ [][NextStart]_vars

\* SpecNet: calls through one scope's interceptors next to a producer
\* thread and the running worker
InitNet == Init

NextNet ==
    \/ Construct("A", {PlainContext}, {TRUE})
    \/ Enter("A")
    \/ \E t \in Targets : InterceptedCall(t)
    \/ Produce("P1")
    \/ WorkerPoll(1)
    \/ WorkerGet(1)
    \/ WorkerPostEnd(1)
    \/ WorkerSleep(1)

SpecNet == InitNet /\ [][NextNet]_vars

\* SpecLegacy: the older testai_sdk interceptor, entered, left and called
InitLegacy == Init

NextLegacy ==
    \/ \E task_name \in LegacyTasks, input_args \in {EmptyDict, Dict("plain")} :
          LegacyInit(task_name, input_args)
    \/ LegacyEnter
    \/ \E exc \in BOOLEAN : LegacyExit(exc)
    \/ LegacyCall
    \/ MonitoredCall

SpecLegacy == InitLegacy /\ [][NextLegacy]_vars

(* ------------------------------ claims --------------------------------- *)
OtherScopes(s) == Scopes \ {s}

\* C1: when __exit__ of an Active scope returns, with no other scope open,
\* every target its __enter__ patched resolves to the very callable that
\* was live immediately before that __enter__, whether the with-body
\* finished normally or raised.
C1_ExitRestoresOriginal ==
    \A s \in Scopes :
        (/\ last.op = "exit" /\ last.scope = s
         /\ last.wasPhase = "active" /\ ~last.raised
         /\ \A o \in OtherScopes(s) : phase[o] # "active")
        => \A t \in preEnter[s].patched : live[t] = preEnter[s].live[t]

\* an Active scope that patched both targets has just been left by an
\* error raised in the with-body, and __exit__ returned
C1_Witness ==
    \E s \in Scopes :
        /\ last.op = "exit" /\ last.scope = s /\ last.exc
        /\ last.wasPhase = "active" /\ ~last.raised
        /\ \A o \in OtherScopes(s) : phase[o] # "active"
        /\ preEnter[s].patched = Targets
        /\ \A t \in Targets : live[t] = Func


\* the interceptor stack a call went through, and the scope of its i-th layer
Callee == live[last.target]
LayerScope(i) == Callee.wraps[i][1]

\* C2: whatever fails in the interceptors' own bookkeeping, the caller of
\* an intercepted call observes exactly the delegate's outcome: its return
\* value if it returned, its error if it raised.
C2_CallerSeesDelegateOutcome ==
    (last.op = "call" /\ IsInterceptor(Callee))
    => IF Callee.kind # "func"
       THEN last.outcome.raised /\ last.outcome.value = "TypeError"
       ELSE IF last.io.delegate = "raise"
       THEN last.outcome.raised /\ last.outcome.value = "DelegateError"
       ELSE ~last.outcome.raised /\ last.outcome.value = last.io.resp

\* an intercepted call whose post hook failed and enqueued nothing has
\* returned the delegate's response
C2_Witness ==
    /\ last.op = "call" /\ IsInterceptor(Callee) /\ Callee.kind = "func"
    /\ last.io.fault = "post" /\ last.io.delegate = "return"
    /\ last.outcome.records = <<>>
    /\ ~last.outcome.raised /\ last.outcome.value = last.io.resp

\* C3: a call through an interceptor whose delegate raises enqueues no
\* record, and the delegate's error reaches the caller unchanged.
C3_NoRecordWhenDelegateRaises ==
    [][(/\ ncalls' = ncalls + 1
        /\ IsInterceptor(live[last'.target]) /\ live[last'.target].kind = "func"
        /\ last'.io.delegate = "raise")
       => (/\ request_queue' = request_queue
           /\ last'.outcome.records = <<>>
           /\ last'.outcome.raised /\ last'.outcome.value = "DelegateError")]_vars

\* the delegate raised under the interceptors of two active scopes and
\* nothing is in the queue
C3_Witness ==
    /\ last.op = "call" /\ Len(Callee.wraps) = 2 /\ Callee.kind = "func"
    /\ \A s \in Scopes : phase[s] = "active"
    /\ last.io.delegate = "raise" /\ last.io.fault = "none"
    /\ last.outcome.raised /\ last.outcome.value = "DelegateError"
    /\ request_queue = <<>>

\* C4, for calls in which no bookkeeping fault is injected and the task
\* context is JSON-serializable: a call through the interceptor of a single
\* active scope whose delegate returns normally enqueues exactly one
\* record, with response_data.success = TRUE.
C4_ExactlyOneRecord ==
    [][(/\ ncalls' = ncalls + 1
        /\ Len(live[last'.target].wraps) = 1 /\ live[last'.target].kind = "func"
        /\ phase[live[last'.target].wraps[1][1]] = "active"
        /\ scope[live[last'.target].wraps[1][1]].metadata.val # "circular"
        /\ last'.io.delegate = "return" /\ last'.io.fault = "none")
       => (/\ Len(request_queue') = Len(request_queue) + 1
           /\ request_queue'[Len(request_queue')].response_data.success)]_vars

\* C5: an intercepted call invokes the original exactly once, with the
\* caller's arguments, and hands the caller the object the original returned.
C5_DelegatesExactlyOnce ==
    (last.op = "call" /\ IsInterceptor(Callee) /\ Callee.kind = "func")
    => /\ last.outcome.delegateArgs = <<last.args>>
       /\ last.io.delegate = "return" => last.outcome.value = last.io.resp

\* a call with the second argument list went through two interceptors and
\* returned the original's response
C5_Witness ==
    /\ last.op = "call" /\ Len(Callee.wraps) = 2 /\ Callee.kind = "func"
    /\ last.args = "args2" /\ last.io.delegate = "return"
    /\ last.outcome.delegateArgs = <<"args2">>
    /\ last.outcome.value = last.io.resp

\* the fields of record r that name target t
NamesTarget(r, t) ==
    /\ r.function_patched = patcherCfg[t].func_name_to_patch
    /\ r.module_patched = patcherCfg[t].module_name_to_patch
    /\ r.root_module_name_patched = patcherCfg[t].root_module_name

\* the metadata of a scope constructed with metadata m
GivenMetadata(m) == IF m = NoDict THEN EmptyDict ELSE m
\* a caller-supplied dict as it is reported: itself when json.dumps accepts
\* it, else flattened by jsonpickle
Reported(d) == IF d.val = "opaque" THEN [d EXCEPT !.val = "flattened"] ELSE d

\* every interceptor of the last call enqueued its record
AllLayersReported ==
    /\ last.op = "call" /\ IsInterceptor(Callee)
    /\ Len(last.outcome.records) = Len(Callee.wraps)

\* C7 as stated: every record carries, unchanged, the task name, template,
\* keyword arguments and metadata its scope was constructed with, and
\* names the target called.
C7_RecordCarriesContextVerbatim ==
    AllLayersReported =>
        \A i \in 1..Len(Callee.wraps) :
            LET r == last.outcome.records[i]
                g == scope[LayerScope(i)].given
            IN  /\ r.task_name = g.task_name
                /\ r.prompt_template = g.prompt_template
                /\ r.user_input_args = g.kwargs
                /\ r.metadata = GivenMetadata(g.metadata)
                /\ NamesTarget(r, last.target)

\* C7 amended: every record carries its own scope's task name and template,
\* names the target called, and reports the scope's keyword arguments and
\* metadata ({} when none was given) in JSON-serializable form: unchanged
\* when json.dumps accepts them, flattened by jsonpickle otherwise.
C7_RecordCarriesContext ==
    AllLayersReported =>
        \A i \in 1..Len(Callee.wraps) :
            LET r == last.outcome.records[i]
                g == scope[LayerScope(i)].given
            IN  /\ r.task_name = g.task_name
                /\ r.prompt_template = g.prompt_template
                /\ r.user_input_args = Reported(g.kwargs)
                /\ r.metadata = Reported(GivenMetadata(g.metadata))
                /\ NamesTarget(r, last.target)

\* two scopes with different task names are active, one of them constructed
\* with unserializable keyword arguments and the other without metadata,
\* and a call has enqueued one record for each
C7_Witness ==
    /\ AllLayersReported /\ Len(Callee.wraps) = 2
    /\ scope["A"].given.task_name # scope["B"].given.task_name
    /\ \E s \in Scopes : scope[s].given.kwargs.val = "opaque"
    /\ \E s \in Scopes : scope[s].given.metadata = NoDict
    /\ LayerScope(1) # LayerScope(2)
    /\ last.outcome.records[2].task_name = scope[LayerScope(2)].given.task_name
    /\ last.outcome.records[1].metadata \in {EmptyDict, Dict("plain")}


\* the installed root library of target t passes the version gate, stated
\* from the FunctionPatcher's bounds
Compatible(t) ==
    /\ installed[t] \in InstalledVersions
    /\ patcherCfg[t].min_module_version # NoVersion
          => ~VersionLess(installed[t], patcherCfg[t].min_module_version)
    /\ patcherCfg[t].max_module_version # NoVersion
          => ~VersionLess(patcherCfg[t].max_module_version, installed[t])

\* target t is as __enter__ of scope s should leave it
PatchedBy(s, t) ==
    /\ IsInterceptor(live[t])
    /\ live[t].wraps[Len(live[t].wraps)][1] = s
    /\ live[t] # preEnter[s].live[t]
    /\ Wrapped(live[t]) = preEnter[s].live[t]
    /\ scope[s].patchers[t].original_func = preEnter[s].live[t]
    /\ scope[s].patchers[t].patched

\* C6 as stated (for entry points that still resolve): while a scope is
\* Active, every compatible target's live entry point is an interceptor,
\* distinct from but directly wrapping the callable live immediately before
\* __enter__, and the PatchState holds that callable with patched = TRUE.
C6_ActiveScopeOwnsEntryPoint ==
    \A s \in Scopes :
        (phase[s] = "active" /\ scope[s].enabled)
        => \A t \in Targets : (Compatible(t) /\ Resolves(live[t])) => PatchedBy(s, t)

\* C6 amended: the same, for as long as no __enter__ or __exit__ has run and
\* no entry point has been rebound or removed since the scope's __enter__
\* returned.
C6_ActiveScopeAloneOwnsEntryPoint ==
    \A s \in Scopes :
        (phase[s] = "active" /\ scope[s].enabled /\ preEnter[s].alone)
        => \A t \in Targets : Compatible(t) => PatchedBy(s, t)

\* a scope is Active and alone, with one target patched and the other
\* skipped because its library is not installed
C6_Witness ==
    \E s \in Scopes :
        /\ phase[s] = "active" /\ scope[s].enabled /\ preEnter[s].alone
        /\ Compatible(1) /\ PatchedBy(s, 1)
        /\ installed[2] = NotInstalled /\ live[2] = Func


\* no interceptor made by scope s is installed anywhere
NoInterceptorOf(s) ==
    \A t \in Targets : \A i \in 1..Len(live[t].wraps) : live[t].wraps[i][1] # s

\* C8: a scope constructed with enabled = FALSE, or while RESULTAI_ENABLED
\* is "false" in any letter case, is disabled, whatever the variable
\* becomes later: its __enter__ and __exit__ change no entry point and no
\* PatchState, none of its interceptors is ever installed, and calls made
\* while every scope is disabled enqueue nothing.
C8_DisabledScopeIsNoOp ==
    [][\A s \in Scopes :
        /\ (/\ phase'[s] # "new"
            /\ ~scope'[s].given.enabled \/ scope'[s].given.environ \in {"false", "False"})
           => ~scope'[s].enabled
        /\ (phase[s] # "new" /\ ~scope[s].enabled)
           => /\ NoInterceptorOf(s)'
              /\ (last'.scope = s /\ last'.op \in {"enter", "exit"})
                 => (live' = live /\ scope' = scope /\ request_queue' = request_queue)
              /\ (ncalls' = ncalls + 1 /\ \A o \in Scopes : ~scope[o].enabled)
                 => request_queue' = request_queue]_vars

\* a scope constructed with enabled = TRUE under RESULTAI_ENABLED = "False"
\* is Active after the variable was unset, a call was made inside it, and
\* nothing was patched or enqueued
C8_Witness ==
    \E s \in Scopes :
        /\ scope[s].given.enabled /\ scope[s].given.environ = "False"
        /\ environ = "unset"
        /\ ~scope[s].enabled /\ phase[s] = "active"
        /\ last.op = "call"
        /\ \A t \in Targets : live[t] = Func
        /\ request_queue = <<>>

\* the root library of target t is absent, or its version is strictly
\* outside the FunctionPatcher's bounds
Unsupported(t) ==
    \/ installed[t] = NotInstalled
    \/ /\ installed[t] \in InstalledVersions
       /\ \/ /\ patcherCfg[t].min_module_version # NoVersion
             /\ VersionLess(installed[t], patcherCfg[t].min_module_version)
          \/ /\ patcherCfg[t].max_module_version # NoVersion
             /\ VersionLess(patcherCfg[t].max_module_version, installed[t])

\* the installed version of target t equals one of its bounds and is not
\* strictly outside the other
AtBound(t) ==
    /\ installed[t] \in {patcherCfg[t].min_module_version, patcherCfg[t].max_module_version}
    /\ installed[t] \in InstalledVersions
    /\ ~Unsupported(t)

\* C9: a target whose root library is not installed, or installed strictly
\* below the minimum or strictly above the maximum, is never patched: no
\* interceptor is ever installed on it, no scope saves an original for it
\* or marks it patched, and no __exit__ rebinds it; a version equal to a
\* bound is supported, so a returning __enter__ patches the target.
C9_UnsupportedNeverPatched ==
    \A t \in Targets :
        /\ Unsupported(t)
           => /\ live[t] \in {Func, Missing}
              /\ \A s \in Scopes : /\ ~scope[s].patchers[t].patched
                                   /\ scope[s].patchers[t].original_func = PyNone
        /\ (AtBound(t) /\ last.op = "enter" /\ ~last.raised)
           => /\ scope[last.scope].patchers[t].patched
              /\ IsInterceptor(live[t])

\* __enter__ returned with target 1 above its maximum and left untouched,
\* and target 2 exactly at its minimum and patched
C9_Witness ==
    /\ last.op = "enter" /\ ~last.raised
    /\ patcherCfg[1].max_module_version = <<1, 0>> /\ installed[1] = <<1, 1>>
    /\ live[1] = Func /\ ~scope[last.scope].patchers[1].patched
    /\ installed[2] = patcherCfg[2].min_module_version
    /\ IsInterceptor(live[2]) /\ scope[last.scope].patchers[2].patched

\* C10: __exit__ of an Active scope never raises, and every target it
\* patched whose entry point still resolves is back at its saved original,
\* even when restoring another target failed.
C10_ExitRestoresEveryTarget ==
    \A s \in Scopes :
        (last.op = "exit" /\ last.scope = s /\ last.wasPhase = "active")
        => /\ ~last.raised
           /\ \A t \in preEnter[s].patched :
                 Resolves(live[t]) => live[t] = preEnter[s].live[t]


(* ------------------------- claims: delivery ---------------------------- *)
\* the worker threads that were started
Running == {w \in Workers : worker[w].pc # "off"}

\* the records of the requests made so far, in the order they were sent
RECURSIVE SentUpTo(_)
SentUpTo(k) == IF k = 0 THEN <<>> ELSE SentUpTo(k - 1) \o posts[k].prompts
Sent == SentUpTo(Len(posts))

\* the places of record r in a sequence
Places(seq, r) == {k \in 1..Len(seq) : seq[k] = r}

\* C11: with a single worker, two records that were both sent reach the
\* endpoint in the order they were enqueued: the earlier one is in an
\* earlier request, or earlier in the same request's prompts list
C11_DeliveredInEnqueueOrder ==
    Running = {1} =>
        \A i, j \in 1..Len(enqueued) :
            i < j =>
                \A ki \in Places(Sent, enqueued[i]), kj \in Places(Sent, enqueued[j]) : ki < kj

\* three records of two producers were sent, two of them in one request
C11_Witness ==
    /\ Len(Sent) = 3
    /\ \E k \in 1..Len(posts) : Len(posts[k].prompts) = 2
    /\ \E k \in 1..3 : Sent[k].producer # Sent[1].producer

\* with batch size 1 every request carries one record, no record is in
\* two requests, and the worker holds a record only while its request is
\* in flight (the request is issued by the step that dequeues the record)
OneRecordPerRequest ==
    BATCH_SIZE = 1 =>
        /\ \A k \in 1..Len(posts) : Len(posts[k].prompts) = 1
        /\ \A k \in 1..Len(Sent) : Places(Sent, Sent[k]) = {k}
        /\ \A w \in Running :
              /\ worker[w].batch # <<>> => worker[w].pc = "post"
              /\ worker[w].pc = "post" => worker[w].batch = posts[Pending(w)].prompts

\* C12: with batch size 1, every enqueued record is eventually sent, in
\* exactly one request that carries exactly that record, as soon as the
\* worker dequeues it
C12_EachRecordFlushedOnce ==
    /\ []OneRecordPerRequest
    /\ \A k \in 1..MaxRecords :
          (BATCH_SIZE = 1 /\ Len(enqueued) >= k)
              ~> (Len(enqueued) >= k /\ Places(Sent, enqueued[k]) # {})

\* every record of a behaviour was sent, one request each
C12_Witness ==
    /\ BATCH_SIZE = 1
    /\ Len(enqueued) = MaxRecords
    /\ Len(posts) = MaxRecords
    /\ \A k \in 1..MaxRecords : posts[k].prompts = <<enqueued[k]>>

\* when the request before the k-th was issued (the worker's start if
\* there is none)
LastFlushAt(k) == IF k = 1 THEN 0 ELSE posts[k - 1].at

\* when the last request before the k-th that returned was issued (the
\* worker's start if there is none)
LastReturnedAt(k) ==
    LET done == {j \in 1..(k - 1) : posts[j].status = "returned"}
    IN  IF done = {} THEN 0 ELSE posts[CHOOSE j \in done : \A i \in done : i <= j].at

\* no request while fewer than BATCH_SIZE records were enqueued and the
\* age was not reached
NoEarlyRequest == (Len(enqueued) < BATCH_SIZE /\ now < FlushAge) => posts = <<>>

HeldPastAge(k) ==
    /\ Len(enqueued) >= k
    /\ Places(worker[1].batch, enqueued[k]) # {}
    /\ worker[1].pc # "post"
    /\ now - worker[1].last_send_time >= FlushAge

\* C14: for any batch size, a record the worker holds in its batch when
\* the maximum age of 3 seconds is exceeded is eventually part of a
\* request, even when no further record is enqueued and the batch never
\* reaches BATCH_SIZE
C14_HeldRecordIsEventuallyFlushed ==
    \A k \in 1..MaxRecords :
        HeldPastAge(k) ~> (Len(enqueued) >= k /\ Places(Sent, enqueued[k]) # {})

\* the records of the requests that have ended (returned or raised), in
\* the order they were sent
RECURSIVE AttemptedUpTo(_)
AttemptedUpTo(k) ==
    IF k = 0 THEN <<>>
    ELSE AttemptedUpTo(k - 1) \o (IF posts[k].status = "pending" THEN <<>> ELSE posts[k].prompts)
Attempted == AttemptedUpTo(Len(posts))

\* the records taken from the queue so far, in the order they were taken
Dequeued == Attempted \o worker[1].batch

\* C15: under every interleaving of the producers and the single worker,
\* every enqueued record is in exactly one of the queue, the worker's
\* batch and a flush attempt that was made, nothing else is in any of
\* them, and the records of one producer are dequeued in the order that
\* producer enqueued them
C15_NoRecordLostOrDuplicated ==
    Running = {1} =>
        /\ \A k \in 1..Len(enqueued) :
              Cardinality(Places(request_queue, enqueued[k]))
                + Cardinality(Places(worker[1].batch, enqueued[k]))
                + Cardinality(Places(Attempted, enqueued[k])) = 1
        /\ Len(request_queue) + Len(worker[1].batch) + Len(Attempted) = Len(enqueued)
        /\ \A i, j \in 1..Len(Dequeued) :
              (i < j /\ Dequeued[i].producer = Dequeued[j].producer)
                  => Dequeued[i].n < Dequeued[j].n

\* records of both producers, one in a request that has ended, one held
\* by the worker between requests, one still queued
C15_Witness ==
    /\ request_queue # <<>>
    /\ worker[1].batch # <<>> /\ worker[1].pc # "post"
    /\ Attempted # <<>>
    /\ \E k \in 1..Len(enqueued) : enqueued[k].producer # enqueued[1].producer

\* the requests that raised
Raised == {k \in 1..Len(posts) : posts[k].status = "raised"}

\* the records of a request that raised are nowhere else: in no other
\* request, not in the worker's batch, not back on the queue
FailedBatchIsGone ==
    \A k \in Raised :
        \A i \in 1..Len(posts[k].prompts) :
            LET r == posts[k].prompts[i]
            IN  /\ \A j \in 1..Len(posts) : j # k => Places(posts[j].prompts, r) = {}
                /\ \A w \in Running : Places(worker[w].batch, r) = {}
                /\ Places(request_queue, r) = {}

\* the step in which a request raises empties the batch, sends the worker
\* back to polling, and touches neither the queue nor what was enqueued
FailureOnlyDropsBatch ==
    \A w \in Workers :
        (worker[w].pc = "post" /\ worker'[w].pc # "post" /\ posts'[Pending(w)].status = "raised")
            => /\ worker'[w].batch = <<>>
               /\ worker'[w].pc = "poll"
               /\ request_queue' = request_queue
               /\ enqueued' = enqueued

\* C16: when a request raises, its batch is dropped and never sent again,
\* the queue is left as it was, and the worker goes on: every record on
\* the queue after a failure is still dequeued, and with the default batch
\* size it is sent (for larger sizes the sending is what C14 is about)
C16_FailedFlushIsDropped ==
    /\ []FailedBatchIsGone
    /\ [][FailureOnlyDropsBatch]_vars
    /\ \A k \in 1..MaxRecords :
          (Raised # {} /\ Len(enqueued) >= k)
              ~> (Len(enqueued) >= k /\ Places(request_queue, enqueued[k]) = {}
                  /\ (BATCH_SIZE = 1 => Places(Sent, enqueued[k]) # {}))

\* a request raised, and a record enqueued after that was sent in a
\* later request that returned
C16_Witness ==
    \E k \in Raised :
        \E j \in (k + 1)..Len(posts) :
            /\ posts[j].status = "returned"
            /\ \A i \in 1..Len(posts[k].prompts) : Places(posts[j].prompts, posts[k].prompts[i]) = {}

\* C17: however often start_queue_worker is called, at most one
\* queue_worker is running and draining the queue
C17_AtMostOneWorker == Cardinality(Running) <= 1

\* a request is issued only in a step of a worker thread, which is no
\* step of a caller
OnlyWorkerPosts ==
    posts' # posts =>
        /\ \E w \in Running : worker[w].pc \in {"get", "post"} /\ worker'[w] # worker[w]
        /\ ncalls' = ncalls /\ last' = last

\* a call touches neither the requests nor any worker thread
CallLeavesDeliveryAlone == ncalls' # ncalls => UNCHANGED <<posts, worker>>

\* a call that can be made can run to its end in one step of its own,
\* whatever the worker is doing
CallCanComplete ==
    \A t \in Targets : (ncalls < MaxCalls /\ Resolves(live[t])) => ENABLED InterceptedCall(t)

\* C18: an intercepted call never performs or waits on delivery: it can
\* complete without a step of the worker, also while a request is pending
\* or after one failed, it leaves the requests alone, and every request
\* is issued by a worker step
C18_CallNeverWaitsOnDelivery ==
    /\ []CallCanComplete
    /\ [][OnlyWorkerPosts /\ CallLeavesDeliveryAlone]_vars

\* an intercepted call returned and enqueued its record while the request
\* that is still pending was in flight
C18_Witness ==
    /\ last.op = "call"
    /\ Len(last.outcome.records) = 1
    /\ Len(posts) >= 1
    /\ last.requests = Len(posts)
    /\ worker[1].pc = "post"
    /\ Places(request_queue, last.outcome.records[1]) # {}

\* the live entry point of target t is an interceptor made by scope s
\* around the callable the PatchState of s holds as original_func
InstalledBy(s, t) ==
    /\ IsInterceptor(live[t])
    /\ live[t].wraps[Len(live[t].wraps)][1] = s
    /\ Wrapped(live[t]) = scope[s].patchers[t].original_func

\* C19: for every PatchState of every scope, patched is true exactly when
\* original_func is not None and the live entry point is the interceptor
\* this PatchState installed; after unpatch it is marked unpatched
\* (stated for the entry points that still resolve)
C19_PatchedIffInstalled ==
    \A s \in Scopes, t \in Targets :
        Resolves(live[t]) =>
            (scope[s].patchers[t].patched
                <=> (scope[s].patchers[t].original_func # PyNone /\ InstalledBy(s, t)))

\* the step that issues a request puts into it the value RESULTAI_API_KEY
\* has in that step ("" when it is not set)
RequestCarriesCurrentKey ==
    Len(posts') > Len(posts) => posts'[Len(posts')].api_key = Getenv(apiKey, "")

\* C20: the credential of every request is the value of RESULTAI_API_KEY
\* at the moment the request is issued, whatever it was when the worker
\* started or when the records were enqueued
C20_KeyReadAtFlush == [][RequestCarriesCurrentKey]_vars

\* the key changed between two requests, and the later one carries the
\* new key
C20_Witness ==
    /\ Len(posts) >= 2
    /\ posts[Len(posts)].api_key = Getenv(apiKey, "")
    /\ posts[Len(posts)].api_key # posts[Len(posts) - 1].api_key
    /\ posts[Len(posts) - 1].api_key # ""

(* ------------------- claims: overlapping scopes ----------------------- *)
\* the scope whose interceptor is outermost on callable c
Owner(c) == c.wraps[Len(c.wraps)][1]

\* scope b entered target t while the interceptor of scope a was live on
\* it, scope a has exited since and put back the callable that was live
\* before it entered, and scope b is still Active
Overlapped(a, b, t) ==
    LET saved == scope[b].patchers[t].original_func
    IN  /\ phase[a] = "idle" /\ phase[b] = "active"
        /\ scope[b].patchers[t].patched
        /\ IsInterceptor(saved) /\ Owner(saved) = a
        /\ Wrapped(saved) = preEnter[a].live[t]
        /\ scope[a].patchers[t].patched /\ scope[a].patchers[t].original_func = PyNone
        /\ live[t] = preEnter[a].live[t]

\* C21: in the order A enters, B enters, A exits, B exits on the same
\* target, the __exit__ of B puts back the callable B saved, which is the
\* interceptor of A and not the callable that was live before A entered
C21_OverlapRestoresIntermediate ==
    [][\A a \in Scopes, b \in Scopes, t \in Targets :
          (/\ a # b /\ Overlapped(a, b, t)
           /\ last'.op = "exit" /\ last'.scope = b /\ ~last'.raised)
          => /\ live'[t] = scope[b].patchers[t].original_func
             /\ live'[t] # preEnter[a].live[t]
             /\ Owner(live'[t]) = a]_vars

\* both scopes have exited, B last, and both targets resolve to the
\* interceptor of A around the library's own function
C21_Witness ==
    /\ last.op = "exit" /\ last.scope = "B" /\ ~last.raised /\ last.wasPhase = "active"
    /\ phase = [s \in Scopes |-> "idle"]
    /\ \A t \in Targets :
          /\ IsInterceptor(live[t]) /\ Owner(live[t]) = "A"
          /\ Wrapped(live[t]) = Func
          /\ preEnter["A"].live[t] = Func
          /\ scope["B"].patchers[t].original_func = PyNone

(* ------------------- claims: interceptor faults ----------------------- *)
\* the layers of the interceptor stack a call went through that belong to
\* scopes other than the one whose bookkeeping failed
OtherLayers == {i \in 1..Len(Callee.wraps) : LayerScope(i) # last.io.faultScope}

\* C22: when the pre hook of an interceptor fails, the delegate is still
\* called once and the caller gets its outcome, and that interceptor
\* enqueues nothing for the call: the only records are those of the
\* interceptors of other scopes on the same entry point
C22_PreHookFailureSkipsPostHook ==
    (last.op = "call" /\ last.io.fault = "pre" /\ Callee.kind = "func")
    => /\ last.outcome.delegateArgs = <<last.args>>
       /\ IF last.io.delegate = "raise"
          THEN last.outcome.raised /\ last.outcome.value = "DelegateError"
          ELSE ~last.outcome.raised /\ last.outcome.value = last.io.resp
       /\ Len(last.outcome.records) <= Cardinality(OtherLayers)
       /\ last.outcome.records = SubSeq(request_queue,
                                        Len(request_queue) - Len(last.outcome.records) + 1,
                                        Len(request_queue))

\* a call through one interceptor whose pre hook failed returned the
\* delegate's LLMResult and left the queue empty, in a scope whose
\* context serializes
C22_Witness ==
    /\ last.op = "call" /\ last.io.fault = "pre" /\ Callee.kind = "func"
    /\ Len(Callee.wraps) = 1
    /\ scope[LayerScope(1)].metadata = EmptyDict
    /\ last.io.delegate = "return" /\ last.io.resp = "LLMResult"
    /\ ~last.outcome.raised /\ last.outcome.value = "LLMResult"
    /\ request_queue = <<>>

(* ---------------------- claims: scope entry --------------------------- *)
\* C23: a target skipped at entry (library absent or version out of
\* bounds) raises nothing and does not keep the others from being
\* patched: __enter__ returns when every target is either skipped or
\* compatible with a resolving entry point, and when it returns every
\* compatible target is patched, before or after a skipped one in the list
C23_SkippedTargetIsHarmless ==
    \A s \in Scopes :
        (last.op = "enter" /\ last.scope = s /\ scope[s].enabled)
        => /\ (\A t \in Targets : Unsupported(t) \/ (Compatible(t) /\ Resolves(live[t])))
                  => ~last.raised
           /\ ~last.raised
                  => \A t \in Targets :
                        /\ Compatible(t) => PatchedBy(s, t)
                        /\ Unsupported(t) => live[t] = preEnter[s].live[t]

\* __enter__ returned with the first target skipped (installed below its
\* minimum version) and the second one patched
C23_Witness ==
    /\ last.op = "enter" /\ ~last.raised /\ scope[last.scope].enabled
    /\ installed[1] = <<0, 3>> /\ Unsupported(1) /\ live[1] = Func
    /\ Compatible(2) /\ PatchedBy(last.scope, 2)

\* no scope other than s has ever patched a target
OnlyScope(s) == \A o \in OtherScopes(s), t \in Targets : ~scope[o].patchers[t].patched

\* the last __enter__ of s that returned found the library's own function
\* on every entry point: whatever s did before, it had put everything back
EnteredClean(s) == \A t \in Targets : preEnter[s].live[t] = Func

\* C24: a scope can be entered and exited again and again; with no other
\* scope on the targets, during every Active phase that began at the
\* library's own functions every compatible target carries the scope's
\* interceptor, and after every complete enter/exit cycle every entry
\* point that still resolves is the callable that was live before the
\* first entry
C24_ReentryRestoresOriginal ==
    \A s \in Scopes :
        (OnlyScope(s) /\ scope[s].enabled /\ EnteredClean(s))
        => /\ (phase[s] = "active" /\ preEnter[s].alone)
                 => \A t \in Targets : Compatible(t) => PatchedBy(s, t)
           /\ (last.op = "exit" /\ last.scope = s /\ last.wasPhase = "active" /\ ~last.raised)
                 => /\ phase[s] = "idle"
                    /\ \A t \in Targets : Resolves(live[t]) => live[t] = Func

\* scope A has completed its second enter/exit cycle and both targets
\* resolve to the library's own function
C24_Witness ==
    /\ enters = 2 /\ phase = [s \in Scopes |-> IF s = "A" THEN "idle" ELSE "new"]
    /\ last.op = "exit" /\ last.scope = "A" /\ last.wasPhase = "active" /\ ~last.raised
    /\ EnteredClean("A") /\ preEnter["A"].patched = Targets
    /\ \A t \in Targets : live[t] = Func

(* ----------------------- claims: scope exit --------------------------- *)
\* scope s was constructed and none of its patchers ever patched
NeverEntered(s) == phase[s] = "idle" /\ \A t \in Targets : ~scope[s].patchers[t].patched

\* the last operation was the __exit__ that ended an Active phase of s
JustExited(s) ==
    /\ phase[s] = "idle"
    /\ last.op = "exit" /\ last.scope = s /\ last.wasPhase = "active" /\ ~last.raised

\* C25: __exit__ on a scope that is not Active, because it was never
\* entered or because it has just been exited, changes no live entry
\* point
C25_ExitWhenNotActiveIsNoOp ==
    [][\A s \in Scopes :
          (/\ NeverEntered(s) \/ JustExited(s)
           /\ last'.op = "exit" /\ last'.scope = s)
          => live' = live]_vars

\* C26: when __enter__ raises while it processes a later target, no
\* earlier target is left with an interceptor: the entry points are as
\* they were before the __enter__
C26_FailedEnterLeavesNothing ==
    [][(enters' = enters + 1 /\ last'.op = "enter" /\ last'.raised) => live' = live]_vars

(* --------------------- claims: nested scopes --------------------------- *)
\* scope b patched target t while the interceptor of scope a was live on
\* it, b has just exited, and a is still Active holding the callable its
\* interceptor wraps
InnerExited(a, b, t) ==
    /\ a # b /\ JustExited(b) /\ phase[a] = "active"
    /\ t \in preEnter[b].patched
    /\ IsInterceptor(preEnter[b].live[t]) /\ Owner(preEnter[b].live[t]) = a
    /\ scope[a].patchers[t].original_func = Wrapped(preEnter[b].live[t])
    /\ Wrapped(preEnter[b].live[t]) = preEnter[a].live[t]

\* after the inner scope exits, the entry point is the outer scope's
\* interceptor
InnerExitRestoresOuter ==
    \A a \in Scopes, b \in Scopes, t \in Targets :
        InnerExited(a, b, t) => live[t] = preEnter[b].live[t]

\* the __exit__ of the outer scope that follows puts back the callable
\* that was live before the outer scope entered
OuterExitRestoresOriginal ==
    \A a \in Scopes, b \in Scopes, t \in Targets :
        (/\ InnerExited(a, b, t)
         /\ last'.op = "exit" /\ last'.scope = a /\ ~last'.raised)
        => live'[t] = preEnter[a].live[t]

\* C27: in the order A enters, B enters, B exits, A exits on the same
\* target, the entry point is A's interceptor after B exits and the
\* callable that was live before A entered after A exits
C27_NestedScopesRestore ==
    /\ []InnerExitRestoresOuter
    /\ [][OuterExitRestoresOriginal]_vars

\* B entered inside A and exited first, A has exited last, and both
\* targets resolve to the library's own function again
C27_Witness ==
    /\ phase = [s \in Scopes |-> "idle"]
    /\ last.op = "exit" /\ last.scope = "A" /\ last.wasPhase = "active" /\ ~last.raised
    /\ \A t \in Targets :
          /\ preEnter["A"].live[t] = Func
          /\ preEnter["B"].live[t] = Wrap(Func, "A", 1)
          /\ t \in preEnter["B"].patched
          /\ live[t] = Func

(* ------------------- claims: simultaneous scopes ---------------------- *)
\* callable c is the library's own function under the interceptors of k
\* different scopes, all Active, each with a context json.dumps accepts;
\* c.wraps lists them in the order the scopes entered
ActiveStack(c, k) ==
    /\ c.kind = "func" /\ Len(c.wraps) = k
    /\ \A i, j \in 1..k : i # j => c.wraps[i][1] # c.wraps[j][1]
    /\ \A i \in 1..k : /\ phase[c.wraps[i][1]] = "active"
                       /\ scope[c.wraps[i][1]].metadata.val # "circular"

\* C28, for two scopes or more: a successful call to a target on which k
\* scopes are Active reaches the library's function once and enqueues
\* exactly k records, the i-th carrying the task name of the i-th scope
\* that entered
C28_OneRecordPerActiveScope ==
    [][\A k \in 2..Cardinality(Scopes) :
          (/\ ncalls' = ncalls + 1
           /\ ActiveStack(live[last'.target], k)
           /\ last'.io.delegate = "return" /\ last'.io.fault = "none")
          => /\ last'.outcome.delegateArgs = <<last'.args>>
             /\ Len(last'.outcome.records) = k
             /\ request_queue' = request_queue \o last'.outcome.records
             /\ \A i \in 1..k :
                   last'.outcome.records[i].task_name
                       = scope[live[last'.target].wraps[i][1]].task_name]_vars

(* ------------------- claims: missing api key -------------------------- *)
\* the requests of worker w whose flush logged the missing-key warning
Warned(w) == {k \in 1..Len(posts) : posts[k].by = w /\ posts[k].warned}

\* a worker warns at most once, at its first request without a key
WarnsOnce ==
    \A w \in Running :
        /\ Cardinality(Warned(w)) <= 1
        /\ \A k \in 1..Len(posts) :
              (posts[k].by = w /\ posts[k].api_key = "")
                  => \E j \in Warned(w) : j <= k /\ posts[j].api_key = ""

\* a record dequeued while RESULTAI_API_KEY is absent or empty is sent
\* all the same, with "" as api_key
SentWithoutKey ==
    \A w \in Running :
        (/\ worker[w].pc = "get" /\ worker'[w].pc # "get" /\ request_queue # <<>>
         /\ BATCH_SIZE = 1 /\ apiKey \in {"unset", ""})
        => /\ Len(posts') = Len(posts) + 1
           /\ posts'[Len(posts')].api_key = ""
           /\ posts'[Len(posts')].prompts = <<Head(request_queue)>>

\* C29: without RESULTAI_API_KEY (absent or empty) a batch is still sent,
\* with the empty string as api_key, and the worker logs the missing-key
\* warning at most once in its life, however many requests go out
\* without a key
C29_MissingKeyWarnsOnce ==
    /\ []WarnsOnce
    /\ [][SentWithoutKey]_vars

\* three requests went out without a key, one with the variable set to
\* the empty string, and only the first logged the warning
C29_Witness ==
    /\ Len(posts) = 3
    /\ \A k \in 1..3 : posts[k].api_key = ""
    /\ apiKey = ""
    /\ Warned(1) = {1}

\* C30: whenever the delegate of the older interceptor (result_ai_cm's
\* new_create, monitor_openai_call's new_create) returned, the caller
\* receives exactly what the delegate returned and no error, whether or
\* not the record of the call could be built and queued.
LegacyDelegateReturned ==
    /\ last.op \in {"legacy_call", "monitored_call"}
    /\ last.op = "legacy_call" => live[LegacyTarget].kind = "new_create"
    /\ last.io.delegate = "return"
    /\ last.outcome.delegateArgs = <<last.args>>

C30_LegacyDelegateOutcomeDelivered ==
    LegacyDelegateReturned =>
        /\ ~last.outcome.raised
        /\ last.outcome.value = last.io.resp

\* C31: every request carries at least one and at most BATCH_SIZE records,
\* no worker's local batch ever holds more than BATCH_SIZE records, and
\* when a request has ended, returned or raised, the batch of the worker
\* that issued it is empty.
BatchWithinSize ==
    /\ \A i \in 1..Len(posts) :
          /\ Len(posts[i].prompts) >= 1
          /\ Len(posts[i].prompts) <= BATCH_SIZE
    /\ \A w \in Workers : Len(worker[w].batch) <= BATCH_SIZE

BatchEmptyAfterFlush ==
    \A w \in Workers :
        (worker[w].pc = "post" /\ worker'[w].pc # "post") => worker'[w].batch = <<>>

C31_FlushCarriesBoundedBatch == []BatchWithinSize /\ [][BatchEmptyAfterFlush]_vars

\* a full batch of two was sent, a later request that the age test
\* triggered carried one record and failed, and the worker's batch is empty
C31_Witness ==
    /\ BATCH_SIZE = 2
    /\ worker[1].pc = "poll"
    /\ worker[1].batch = <<>>
    /\ \E i, j \in 1..Len(posts) :
          /\ i < j
          /\ Len(posts[i].prompts) = BATCH_SIZE
          /\ Len(posts[j].prompts) = 1
          /\ posts[j].status = "raised"

====
